---- MODULE Spec2Model ----
(***************************************************************************)
(* Digital library catalog: the content, author and category services of   *)
(* app/content_service.py over the tables of app/models.py.                 *)
(*                                                                          *)
(* A table with an autoincrement primary key is a sequence of rows, the     *)
(* row's id being its index (rows are never deleted).  A junction table is  *)
(* a set of <<content_id, other_id>> pairs.  An Optional value is <<>>      *)
(* (None) or <<v>>; an Optional integer column holds 0 for None.  A string  *)
(* that is searched is a sequence of one-character strings.                 *)
(*                                                                          *)
(* create_book commits twice (content_service.py lines 136 and 158), so it  *)
(* is two steps, with its position kept in `call`; every other operation    *)
(* runs one statement batch and one commit, and is one step.  Other         *)
(* callers' steps may fall between the two steps of create_book.            *)
(***************************************************************************)
EXTENDS Integers, Sequences, FiniteSets, TLC

VARIABLES
    content,             \* table content
    ext,                 \* tables books, articles, magazines, multimedia
    content_authors,     \* table content_authors
    content_categories,  \* table content_categories
    authors,             \* table authors
    categories,          \* table categories
    now,                 \* datetime.utcnow()
    call,                \* the create_book call in flight, if any
    ret,                 \* the last completed call: its arguments and what it returned
    returned,            \* ids of the Content rows create_book has returned
    reading              \* the get_content_with_details call in flight, if any

tables == <<content, ext, content_authors, content_categories, authors, categories>>
vars == <<content, ext, content_authors, content_categories, authors, categories, now, call, ret,
          returned, reading>>

\* ---------------------------------------------------------------- bounds
MaxContent == 1      \* content rows of the transaction specification
MaxAuthors == 1
MaxCategories == 1
MaxRows == 2         \* content rows of the catalogue specification
MaxClock == 1
MaxPeople == 3       \* authors of the reference-data specification
MaxTree == 2         \* categories of the reference-data specification

\* ------------------------------------------------------- enums, app/models.py
ContentType == {"book", "article", "magazine", "multimedia"}
ContentStatus == {"available", "checked_out", "reserved", "maintenance"}

\* The extension table that holds the rows of a content type.
ExtTable == [book |-> "books", article |-> "articles",
             magazine |-> "magazines", multimedia |-> "multimedia"]
ExtTables == {ExtTable[t] : t \in ContentType}

None == <<>>
Some(v) == <<v>>

\* ------------------------------------------------------------ input sets
\* Ids a caller may pass: those of the rows a table can hold, and one more.
Ids(cap) == 1..(cap + 1)
AuthorIds == Ids(MaxAuthors)
CategoryIds == Ids(MaxCategories)

\* Lists of ids of length at most 2 (None and [] act alike: `if author_ids:`).
ShortLists(ids) == {<<>>} \cup {<<a>> : a \in ids}
IdLists(ids) == {<<>>} \cup {<<a>> : a \in ids} \cup {<<a, b>> : a \in ids, b \in ids}

Alphabet == {"a", "A", "b", "_", "%"}
Strings == {<<>>} \cup {<<c>> : c \in Alphabet} \cup {<<c, d>> : c \in Alphabet, d \in Alphabet}

\* ContentCreate values of the transaction specification: one title.
CoreContentData ==
    [title : {<<"a">>}, description : {<<>>}, content_type : {"book"}, isbn : {None},
     language : {"English"}, tags : {<<>>}]
\* ContentCreate values of the catalogue specification: a title in capitals
\* with an empty description and a tag, and a title with a description; the
\* first asks for a content_type other than book.
CatalogueContentData ==
    {[title |-> <<"A", "b">>, description |-> <<>>, content_type |-> "magazine",
      isbn |-> None, language |-> "English", tags |-> << <<"a", "a">> >>],
     [title |-> <<"b">>, description |-> <<"b", "a">>, content_type |-> "book",
      isbn |-> None, language |-> "English", tags |-> <<>>]}
\* BookCreate values: the defaults but for the publisher.
BookData ==
    [publisher : {"T. Egerton"}, page_count : {None}, edition : {""}, format : {"paperback"}]

\* Inputs of the creation specification: one ContentCreate for each member of
\* ContentType, and BookCreate with its defaults and with every field given.
CreateContentData ==
    {[title |-> <<"a">>, description |-> <<>>, content_type |-> "book",
      isbn |-> None, language |-> "English", tags |-> <<>>],
     [title |-> <<"A", "b">>, description |-> <<"b">>, content_type |-> "article",
      isbn |-> Some("9780141439518"), language |-> "French", tags |-> << <<"a">> >>],
     [title |-> <<"b">>, description |-> <<"a", "b">>, content_type |-> "magazine",
      isbn |-> Some("0141439513"), language |-> "English", tags |-> << <<"b">>, <<"a">> >>],
     [title |-> <<"b", "b">>, description |-> <<>>, content_type |-> "multimedia",
      isbn |-> None, language |-> "French", tags |-> <<>>]}
CreateBookData ==
    {[publisher |-> "", page_count |-> None, edition |-> "", format |-> "paperback"],
     [publisher |-> "T. Egerton", page_count |-> Some(432), edition |-> "1st",
      format |-> "hardcover"]}

FirstNames == {"Jane"}
LastNames == {"Austen"}
CategoryNames == {"Fiction", "Mystery", "Romance"}
\* Names of the reference-data specifications.
RefFirstNames == {"George", "Jane"}
RefLastNames == {"Austen", "Orwell"}
\* The strings ORDER BY compares, in ascending order.
Collation == <<"Austen", "Fiction", "George", "Jane", "Mystery", "Orwell", "Romance">>
Rank(str) == CHOOSE i \in DOMAIN Collation : Collation[i] = str
\* The transaction specification names its categories in this order, as
\* create_sample_data does: there a category is only a row to refer to.
SampleCategoryNames ==
    <<"Fiction", "Science Fiction", "Mystery", "Classic Literature", "Dystopian", "Romance",
      "Modernist">>
NextSampleName == {SampleCategoryNames[i] : i \in {Len(categories) + 1} \cap DOMAIN SampleCategoryNames}

\* call: pc is "idle" or "inserted" (between the two commits); id is content.id;
\* refs_exist records whether every id of author_ids and category_ids had a row
\* when the call was made.
NoCall == [pc |-> "idle", id |-> 0, content_data |-> None, book_data |-> None,
           author_ids |-> <<>>, category_ids |-> <<>>, refs_exist |-> TRUE]
\* ret: result is "content", "author", "category", "true", "false", "raised",
\* or "value" for a read; args holds Some(arguments) and value Some(what was
\* returned, or the kind of error raised) where a claim needs them; a write of
\* another caller that changes the content table resets it.
NoRet == [op |-> "none", id |-> 0, result |-> "none", status |-> "",
          author_ids |-> <<>>, category_ids |-> <<>>, refs_exist |-> TRUE,
          args |-> None, value |-> None]
\* reading: the rows a get_content_with_details call has read so far.
NoRead == [pc |-> "idle", id |-> 0, content |-> None, authors |-> {}, categories |-> {}]
Ret(op, id, result) == [NoRet EXCEPT !.op = op, !.id = id, !.result = result]

\* ------------------------------------------------------------------ Init
Init ==
    /\ content = <<>>
    /\ ext = [t \in ExtTables |-> <<>>]
    /\ content_authors = {}
    /\ content_categories = {}
    /\ authors = <<>>
    /\ categories = <<>>
    /\ now = 0
    /\ call = NoCall
    /\ ret = NoRet
    /\ returned = {}
    /\ reading = NoRead

\* ------------------------------------------------------- storage constraints
\* Content(**content_data.model_dump()) with content_type overwritten, and the
\* column defaults of Content.
\* Variant: content_type is left as content_data gives it.
NewContent_keeps_type(content_data) ==
    [title |-> content_data.title,
     description |-> content_data.description,
     content_type |-> content_data.content_type,
     status |-> "available",
     created_at |-> now,
     updated_at |-> now,
     isbn |-> content_data.isbn,
     language |-> content_data.language,
     tags |-> content_data.tags]

NewContent(content_data) ==
    [title |-> content_data.title,
     description |-> content_data.description,
     content_type |-> "book",
     status |-> "available",
     created_at |-> now,
     updated_at |-> now,
     isbn |-> content_data.isbn,
     language |-> content_data.language,
     tags |-> content_data.tags]

\* Book(**book_data.model_dump(), content_id=content.id)
\* Variant: format is left to the column default.
NewBook_default_format(book_data, content_id) ==
    [content_id |-> content_id, publisher |-> book_data.publisher,
     page_count |-> book_data.page_count, edition |-> book_data.edition,
     format |-> "paperback"]

NewBook(book_data, content_id) ==
    [content_id |-> content_id, publisher |-> book_data.publisher,
     page_count |-> book_data.page_count, edition |-> book_data.edition,
     format |-> book_data.format]

NoDuplicates(ids) == \A i, j \in DOMAIN ids : ids[i] = ids[j] => i = j

\* The rows session.add()ed between the two commits of create_book.
\* Variant: the loop over author_ids starts at the second id.
AuthorRows_skip_first(content_id, author_ids) ==
    {<<content_id, author_ids[i]>> : i \in DOMAIN author_ids \ {1}}

AuthorRows(content_id, author_ids) == {<<content_id, author_ids[i]>> : i \in DOMAIN author_ids}
CategoryRows(content_id, category_ids) == {<<content_id, category_ids[i]>> : i \in DOMAIN category_ids}

\* Composite primary key of a junction table: no two rows with the same pair.
JunctionKeyOk(table, content_id, ids) ==
    /\ NoDuplicates(ids)
    /\ \A i \in DOMAIN ids : <<content_id, ids[i]>> \notin table

\* Foreign key of a junction table into authors / categories.
\* Variant: the junction columns carry no foreign key.
ForeignKeyOk_not_declared(ids, target) == TRUE

ForeignKeyOk(ids, target) == \A i \in DOMAIN ids : ids[i] \in DOMAIN target

\* Book.content_id: unique, foreign key into content.
BookKeyOk(content_id) ==
    /\ content_id \in DOMAIN content
    /\ \A i \in DOMAIN ext["books"] : ext["books"][i].content_id # content_id

\* The second commit of create_book succeeds iff no constraint is violated.
SecondCommitOk(c) ==
    /\ BookKeyOk(c.id)
    /\ JunctionKeyOk(content_authors, c.id, c.author_ids)
    /\ ForeignKeyOk(c.author_ids, authors)
    /\ JunctionKeyOk(content_categories, c.id, c.category_ids)
    /\ ForeignKeyOk(c.category_ids, categories)

\* ------------------------------------------------------------ create_book
\* What a create_book call leaves in ret when it returns or raises.
CallRet(c, result) ==
    [Ret("create_book", c.id, result) EXCEPT !.author_ids = c.author_ids,
        !.category_ids = c.category_ids, !.refs_exist = c.refs_exist,
        !.args = Some([content_data |-> c.content_data[1], book_data |-> c.book_data[1]])]

\* Lines 133-137: the Content row is added and committed.
create_book_insert(cap, ContentDatas, BookDatas, AuthorLists, CategoryLists) ==
    /\ call.pc = "idle"
    /\ Len(content) < cap
    /\ \E content_data \in ContentDatas, book_data \in BookDatas,
          author_ids \in AuthorLists, category_ids \in CategoryLists :
          /\ content' = Append(content, NewContent(content_data))
          /\ call' = [pc |-> "inserted", id |-> Len(content) + 1,
                      content_data |-> Some(content_data), book_data |-> Some(book_data),
                      author_ids |-> author_ids, category_ids |-> category_ids,
                      refs_exist |-> /\ ForeignKeyOk(author_ids, authors)
                                     /\ ForeignKeyOk(category_ids, categories)]
    /\ ret' = NoRet
    /\ UNCHANGED <<ext, content_authors, content_categories, authors, categories, now, returned, reading>>

\* Lines 143-160: the Book row and the junction rows are added and committed.
\* Variant: session.add(book) is left out.
create_book_commit_no_book ==
    /\ call.pc = "inserted"
    /\ SecondCommitOk(call)
    /\ content_authors' = content_authors \cup AuthorRows(call.id, call.author_ids)
    /\ content_categories' = content_categories \cup CategoryRows(call.id, call.category_ids)
    /\ call' = NoCall
    /\ ret' = CallRet(call, "content")
    /\ returned' = returned \cup {call.id}
    /\ UNCHANGED <<content, ext, authors, categories, now, reading>>

create_book_commit ==
    /\ call.pc = "inserted"
    /\ SecondCommitOk(call)
    /\ ext' = [ext EXCEPT !["books"] = Append(@, NewBook(call.book_data[1], call.id))]
    /\ content_authors' = content_authors \cup AuthorRows(call.id, call.author_ids)
    /\ content_categories' = content_categories \cup CategoryRows(call.id, call.category_ids)
    /\ call' = NoCall
    /\ ret' = CallRet(call, "content")
    /\ returned' = returned \cup {call.id}
    /\ UNCHANGED <<content, authors, categories, now, reading>>

\* Lines 162-164: the second commit raises; session.rollback() undoes what was
\* added since the first commit, and the error is re-raised.
create_book_rollback ==
    /\ call.pc = "inserted"
    /\ ~SecondCommitOk(call)
    /\ call' = NoCall
    /\ ret' = CallRet(call, "raised")
    /\ UNCHANGED <<content, ext, content_authors, content_categories, authors, categories, now,
                   returned, reading>>

\* ---------------------------------------------------- update_content_status
\* Variant: a checkout workflow that refuses checked_out -> reserved.
StatusUpdated_workflow(row, status) ==
    IF row.status = "checked_out" /\ status = "reserved"
    THEN row
    ELSE [row EXCEPT !.status = status, !.updated_at = now]

\* Variant: created_at is stamped as well.
StatusUpdated_stamps_created(row, status) ==
    [row EXCEPT !.status = status, !.updated_at = now, !.created_at = now]

StatusUpdated(row, status) == [row EXCEPT !.status = status, !.updated_at = now]

\* Variant: a content put in maintenance loses its associations.
update_content_status_unlinks(ContentIds) ==
    \E content_id \in ContentIds, status \in ContentStatus :
        IF content_id \notin DOMAIN content
        THEN /\ ret' = [Ret("update_content_status", content_id, "false") EXCEPT !.status = status]
             /\ UNCHANGED <<content, ext, content_authors, content_categories,
                            authors, categories, now, call, returned, reading>>
        ELSE /\ content' = [content EXCEPT ![content_id] = StatusUpdated(@, status)]
             /\ content_authors' =
                    IF status = "maintenance"
                    THEN {row \in content_authors : row[1] # content_id}
                    ELSE content_authors
             /\ content_categories' =
                    IF status = "maintenance"
                    THEN {row \in content_categories : row[1] # content_id}
                    ELSE content_categories
             /\ ret' = [Ret("update_content_status", content_id, "true") EXCEPT !.status = status]
             /\ UNCHANGED <<ext, authors, categories, now, call, returned, reading>>

\* Variant: a missing id raises instead of returning False.
update_content_status_raises(ContentIds) ==
    \E content_id \in ContentIds, status \in ContentStatus :
        IF content_id \notin DOMAIN content
        THEN /\ ret' = [Ret("update_content_status", content_id, "raised") EXCEPT !.status = status]
             /\ UNCHANGED <<content, ext, content_authors, content_categories,
                            authors, categories, now, call, returned, reading>>
        ELSE /\ content' = [content EXCEPT ![content_id] = StatusUpdated(@, status)]
             /\ ret' = [Ret("update_content_status", content_id, "true") EXCEPT !.status = status]
             /\ UNCHANGED <<ext, content_authors, content_categories,
                            authors, categories, now, call, returned, reading>>

update_content_status(ContentIds) ==
    \E content_id \in ContentIds, status \in ContentStatus :
        IF content_id \notin DOMAIN content
        THEN /\ ret' = [Ret("update_content_status", content_id, "false") EXCEPT !.status = status]
             /\ UNCHANGED <<content, ext, content_authors, content_categories,
                            authors, categories, now, call, returned, reading>>
        ELSE /\ content' = [content EXCEPT ![content_id] = StatusUpdated(@, status)]
             /\ ret' = [Ret("update_content_status", content_id, "true") EXCEPT !.status = status]
             /\ UNCHANGED <<ext, content_authors, content_categories,
                            authors, categories, now, call, returned, reading>>

\* ------------------------------------------------ AuthorService, CategoryService
\* Variant: (first_name, last_name) is declared unique.
create_author_unique(cap, First, Last) ==
    /\ Len(authors) < cap
    /\ \E first_name \in First, last_name \in Last :
          LET author == [first_name |-> first_name, last_name |-> last_name]
          IN IF \E i \in DOMAIN authors : authors[i] = author
             THEN /\ authors' = authors
                  /\ ret' = [Ret("create_author", 0, "raised") EXCEPT !.args = Some(author)]
             ELSE /\ authors' = Append(authors, author)
                  /\ ret' = [Ret("create_author", Len(authors) + 1, "author") EXCEPT
                                !.args = Some(author)]
    /\ UNCHANGED <<content, ext, content_authors, content_categories, categories, now, call,
                   returned, reading>>

create_author(cap, First, Last) ==
    /\ Len(authors) < cap
    /\ \E first_name \in First, last_name \in Last :
          /\ authors' = Append(authors, [first_name |-> first_name, last_name |-> last_name])
          /\ ret' = [Ret("create_author", Len(authors) + 1, "author") EXCEPT
                        !.args = Some([first_name |-> first_name, last_name |-> last_name])]
    /\ UNCHANGED <<content, ext, content_authors, content_categories, categories, now, call,
                   returned, reading>>

\* Category.name is unique; Category.parent_id is a foreign key into categories
\* (the row being inserted counts as a target).
\* Variant: name is not declared unique.
CategoryOk_name_not_unique(name, parent_id) ==
    parent_id = 0 \/ parent_id \in 1..(Len(categories) + 1)

CategoryOk(name, parent_id) ==
    /\ \A i \in DOMAIN categories : categories[i].name # name
    /\ parent_id = 0 \/ parent_id \in 1..(Len(categories) + 1)

\* The error the store reports for a row CategoryOk rejects.
CategoryError(name, parent_id) ==
    IF \E i \in DOMAIN categories : categories[i].name = name
    THEN "unique" ELSE "foreign_key"

\* Variant: session.merge on the name: a category of that name is given the new
\* parent instead of a second row being refused.
create_category_merge(cap, Names, ParentIds) ==
    \E name \in Names, parent_id \in ParentIds :
        /\ IF \E i \in DOMAIN categories : categories[i].name = name
           THEN LET i == CHOOSE i \in DOMAIN categories : categories[i].name = name
                IN /\ categories' = [categories EXCEPT ![i].parent_id = parent_id]
                   /\ ret' = [Ret("create_category", i, "category") EXCEPT
                                 !.args = Some([name |-> name, parent_id |-> parent_id])]
           ELSE /\ Len(categories) < cap
                /\ categories' = Append(categories, [name |-> name, parent_id |-> parent_id])
                /\ ret' = [Ret("create_category", Len(categories) + 1, "category") EXCEPT
                              !.args = Some([name |-> name, parent_id |-> parent_id])]
        /\ UNCHANGED <<content, ext, content_authors, content_categories, authors, now, call,
                       returned, reading>>

\* cap bounds the rows the table holds; a call that raises adds none.
create_category(cap, Names, ParentIds) ==
    \E name \in Names, parent_id \in ParentIds :
        /\ IF CategoryOk(name, parent_id)
           THEN /\ Len(categories) < cap
                /\ categories' = Append(categories, [name |-> name, parent_id |-> parent_id])
                /\ ret' = [Ret("create_category", Len(categories) + 1, "category") EXCEPT
                              !.args = Some([name |-> name, parent_id |-> parent_id])]
           ELSE /\ categories' = categories
                /\ ret' = [Ret("create_category", 0, "raised") EXCEPT
                              !.args = Some([name |-> name, parent_id |-> parent_id]),
                              !.value = Some(CategoryError(name, parent_id))]
    /\ UNCHANGED <<content, ext, content_authors, content_categories, authors, now, call,
                   returned, reading>>

\* ------------------------------------------------------------------ clock
Tick ==
    /\ now < MaxClock
    /\ now' = now + 1
    /\ UNCHANGED <<content, ext, content_authors, content_categories, authors, categories, call,
                   ret, returned, reading>>

\* ------------------------------------------------- rows written by the tests
\* tests/test_content_service.py: a Content row added and committed through
\* the session, with no extension row: an article of the default status, a
\* book that is checked out; and a multimedia item in maintenance.
DirectKinds ==
    {[content_type |-> "article", status |-> "available"],
     [content_type |-> "book", status |-> "checked_out"],
     [content_type |-> "multimedia", status |-> "maintenance"]}

DirectContent(content_data, content_type, status) ==
    [NewContent(content_data) EXCEPT !.content_type = content_type, !.status = status]

insert_content_direct ==
    /\ Len(content) < MaxRows
    /\ \E content_data \in CatalogueContentData, kind \in DirectKinds :
          content' = Append(content, DirectContent(content_data, kind.content_type, kind.status))
    /\ ret' = NoRet
    /\ UNCHANGED <<ext, content_authors, content_categories, authors, categories, now, call,
                   returned, reading>>

\* ------------------------------------------------- stores of the detail reads
\* get_content_with_details reads whatever the tables hold. The schema lets a
\* row of any extension table reference any Content row (foreign key to
\* content.id, unique per table), whatever the content_type of that row.
\* A row of each extension table, with the defaults of its columns.
ExtRow(table, content_id) ==
    CASE table = "books" ->
             [content_id |-> content_id, publisher |-> "", page_count |-> None,
              edition |-> "", format |-> "paperback"]
      [] table = "articles" -> [content_id |-> content_id, journal_name |-> ""]
      [] table = "magazines" ->
             [content_id |-> content_id, issue_number |-> "1", frequency |-> "monthly",
              publisher |-> ""]
      [] table = "multimedia" -> [content_id |-> content_id, media_type |-> "dvd"]

\* Up to MaxRows Content rows of any type, and in each extension table at most
\* one row, referencing one of them.
DetailContents ==
    UNION {[1..n -> {DirectContent(content_data, t, "available") :
                        content_data \in CoreContentData, t \in ContentType}] : n \in 0..MaxRows}
DetailExts(rows) ==
    [ExtTables -> {<<>>} \cup {<<id>> : id \in DOMAIN rows}]

InitDetails ==
    /\ now = 0
    /\ content \in DetailContents
    /\ \E refs \in DetailExts(content) :
          ext = [t \in ExtTables |-> [i \in DOMAIN refs[t] |-> ExtRow(t, refs[t][i])]]
    /\ content_authors = {}
    /\ content_categories = {}
    /\ authors = <<>>
    /\ categories = <<>>
    /\ call = NoCall
    /\ ret = NoRet
    /\ returned = {}
    /\ reading = NoRead

\* ------------------------------------------------- stores of the status updates
\* The store after create_author("Jane", "Austen"), create_category("Fiction")
\* and up to MaxRows calls create_book(content_data, book_data, [1], [1]), at
\* time 0.
InitStatus ==
    /\ now = 0
    /\ authors = <<[first_name |-> "Jane", last_name |-> "Austen"]>>
    /\ categories = <<[name |-> "Fiction", parent_id |-> 0]>>
    /\ \E n \in 1..MaxRows, content_data \in CoreContentData, book_data \in BookData :
          /\ content = [id \in 1..n |-> NewContent(content_data)]
          /\ ext = [t \in ExtTables |->
                       IF t = "books" THEN [id \in 1..n |-> NewBook(book_data, id)] ELSE <<>>]
          /\ content_authors = {<<id, 1>> : id \in 1..n}
          /\ content_categories = {<<id, 1>> : id \in 1..n}
          /\ returned = 1..n
    /\ call = NoCall
    /\ ret = NoRet
    /\ reading = NoRead

\* ------------------------------------------------------------------ ilike
\* lower() over the alphabet of the model.
LowerChar(c) ==
    IF c = "A" THEN "a" ELSE IF c = "B" THEN "b" ELSE IF c = "G" THEN "g"
    ELSE IF c = "J" THEN "j" ELSE IF c = "O" THEN "o" ELSE c
Lower(s) == [i \in DOMAIN s |-> LowerChar(s[i])]

\* SQL LIKE: % matches any run of characters, _ any one character.
RECURSIVE Like(_, _)
Like(s, pattern) ==
    IF pattern = <<>> THEN s = <<>>
    ELSE IF Head(pattern) = "%"
         THEN Like(s, Tail(pattern)) \/ (s # <<>> /\ Like(Tail(s), pattern))
         ELSE /\ s # <<>>
              /\ Head(pattern) = "_" \/ Head(pattern) = Head(s)
              /\ Like(Tail(s), Tail(pattern))

\* col.ilike(pattern): LIKE on the lower-cased operands.
ILike(s, pattern) == Like(Lower(s), Lower(pattern))

\* or_(title.ilike(f"%{query}%"), description.ilike(f"%{query}%"))
search_filter(row, query) ==
    \/ ILike(row.title, <<"%">> \o query \o <<"%">>)
    \/ ILike(row.description, <<"%">> \o query \o <<"%">>)

\* ---------------------------------------------------------- ContentService reads
\* The WHERE clause of search_content; content_type is None or Some(type).
\* Variant: the content_type clause is left out.
search_where_no_type(row, query, content_type, available_only) ==
    /\ query # <<>> => search_filter(row, query)
    /\ available_only => row.status = "available"

search_where(row, query, content_type, available_only) ==
    /\ query # <<>> => search_filter(row, query)
    /\ content_type # None => row.content_type = content_type[1]
    /\ available_only => row.status = "available"

\* ORDER BY created_at DESC: every order of the ids that is non-increasing in
\* created_at (rows with equal created_at come in any order).
\* Variant: oldest first.
OrderByCreatedAsc(ids) ==
    {s \in [1..Cardinality(ids) -> ids] :
        /\ \A i, j \in DOMAIN s : i # j => s[i] # s[j]
        /\ \A i, j \in DOMAIN s : i < j => content[s[i]].created_at <= content[s[j]].created_at}

OrderByCreatedDesc(ids) ==
    {s \in [1..Cardinality(ids) -> ids] :
        /\ \A i, j \in DOMAIN s : i # j => s[i] # s[j]
        /\ \A i, j \in DOMAIN s : i < j => content[s[i]].created_at >= content[s[j]].created_at}

\* LIMIT n
Limit(s, n) == SubSeq(s, 1, IF n < Len(s) THEN n ELSE Len(s))

\* The results the statement of search_content can return, as id sequences.
search_content(query, content_type, available_only, limit) ==
    {Limit(s, limit) :
        s \in OrderByCreatedDesc({id \in DOMAIN content :
                 search_where(content[id], query, content_type, available_only)})}

get_content_by_id(content_id) ==
    IF content_id \in DOMAIN content THEN Some(content[content_id]) ELSE None

\* Variant: the books that are available.
get_books_available(limit) ==
    {Limit(s, limit) :
        s \in OrderByCreatedDesc({id \in DOMAIN content :
                 content[id].content_type = "book" /\ content[id].status = "available"})}

get_books(limit) ==
    {Limit(s, limit) :
        s \in OrderByCreatedDesc({id \in DOMAIN content : content[id].content_type = "book"})}

\* select(Author).join(ContentAuthor).where(ContentAuthor.content_id == content_id),
\* as the set of the ids of the authors returned.
get_content_authors(content_id) ==
    {a \in DOMAIN authors : <<content_id, a>> \in content_authors}

get_content_categories(content_id) ==
    {c \in DOMAIN categories : <<content_id, c>> \in content_categories}

\* select(X).where(X.content_id == content_id) ... .first(), X the table of the
\* content's type: None or Some(row).
FirstExt(table, content_id) ==
    LET hits == {i \in DOMAIN ext[table] : ext[table][i].content_id = content_id}
    IN IF hits = {} THEN None
       ELSE Some(ext[table][CHOOSE i \in hits : \A j \in hits : i <= j])

\* Variant: the first extension row that references the content, of any table.
get_content_with_details_any_table(content_id) ==
    IF content_id \notin DOMAIN content THEN None
    ELSE Some([content |-> content[content_id],
               authors |-> get_content_authors(content_id),
               categories |-> get_content_categories(content_id),
               extended_info |->
                   IF \E t \in ExtTables : FirstExt(t, content_id) # None
                   THEN FirstExt(CHOOSE t \in ExtTables : FirstExt(t, content_id) # None,
                                 content_id)
                   ELSE None])

get_content_with_details(content_id) ==
    IF content_id \notin DOMAIN content THEN None
    ELSE Some([content |-> content[content_id],
               authors |-> get_content_authors(content_id),
               categories |-> get_content_categories(content_id),
               extended_info |-> FirstExt(ExtTable[content[content_id].content_type], content_id)])

\* ------------------------------------------------------- reference data reads
\* ORDER BY over the ids of a table: the orders of ids in which key never
\* decreases; rows with equal keys come in any order.
Orderings(ids) ==
    {s \in [1..Cardinality(ids) -> ids] : \A i, j \in DOMAIN s : i # j => s[i] # s[j]}

\* order_by(Author.last_name, Author.first_name)
AuthorBefore(a, b) ==
    \/ Rank(a.last_name) < Rank(b.last_name)
    \/ a.last_name = b.last_name /\ Rank(a.first_name) < Rank(b.first_name)

\* Variant: order_by(Author.first_name, Author.last_name)
get_all_authors_by_first_name ==
    {s \in Orderings(DOMAIN authors) :
        \A i, j \in DOMAIN s :
            i < j => ~(\/ Rank(authors[s[j]].first_name) < Rank(authors[s[i]].first_name)
                      \/ /\ authors[s[j]].first_name = authors[s[i]].first_name
                         /\ Rank(authors[s[j]].last_name) < Rank(authors[s[i]].last_name))}

\* The results get_all_authors can return, as id sequences.
get_all_authors ==
    {s \in Orderings(DOMAIN authors) :
        \A i, j \in DOMAIN s : i < j => ~AuthorBefore(authors[s[j]], authors[s[i]])}

\* The characters of the names of the reference-data specifications.
Spelling ==
    [George |-> <<"G", "e", "o", "r", "g", "e">>, Jane |-> <<"J", "a", "n", "e">>,
     Austen |-> <<"A", "u", "s", "t", "e", "n">>, Orwell |-> <<"O", "r", "w", "e", "l", "l">>]

\* or_(first_name.ilike(f"%{query}%"), last_name.ilike(f"%{query}%")), ordered
\* as get_all_authors orders: the results search_authors can return.
search_authors(query) ==
    {s \in Orderings({id \in DOMAIN authors :
                         \/ ILike(Spelling[authors[id].first_name], <<"%">> \o query \o <<"%">>)
                         \/ ILike(Spelling[authors[id].last_name], <<"%">> \o query \o <<"%">>)}) :
        \A i, j \in DOMAIN s : i < j => ~AuthorBefore(authors[s[j]], authors[s[i]])}

\* order_by(Category.name)
get_all_categories ==
    {s \in Orderings(DOMAIN categories) :
        \A i, j \in DOMAIN s :
            i < j => Rank(categories[s[i]].name) <= Rank(categories[s[j]].name)}

\* Variant: the where clause is left out.
get_root_categories_unfiltered ==
    {s \in Orderings(DOMAIN categories) :
        \A i, j \in DOMAIN s :
            i < j => Rank(categories[s[i]].name) <= Rank(categories[s[j]].name)}

\* where(col(Category.parent_id).is_(None)).order_by(Category.name)
get_root_categories ==
    {s \in Orderings({id \in DOMAIN categories : categories[id].parent_id = 0}) :
        \A i, j \in DOMAIN s :
            i < j => Rank(categories[s[i]].name) <= Rank(categories[s[j]].name)}

\* ------------------------------------------------------------ sample data
\* sample_data.py: the authors, and of each book the title (by word: nothing
\* here searches it), the BookCreate, author_names and category_names;
\* descriptions, dates and tags, which no operation of the seed reads, are
\* left out.
SampleAuthors ==
    <<[first_name |-> "Jane", last_name |-> "Austen"],
      [first_name |-> "George", last_name |-> "Orwell"],
      [first_name |-> "Agatha", last_name |-> "Christie"],
      [first_name |-> "Isaac", last_name |-> "Asimov"],
      [first_name |-> "Virginia", last_name |-> "Woolf"]>>

SampleContent(title) ==
    [title |-> title, description |-> <<>>, content_type |-> "book", isbn |-> None,
     language |-> "English", tags |-> <<>>]
SampleBook(publisher, page_count, format) ==
    [publisher |-> publisher, page_count |-> Some(page_count), edition |-> "First Edition",
     format |-> format]

sample_books ==
    <<[content |-> SampleContent(<<"Pride", "and", "Prejudice">>),
       book |-> SampleBook("T. Egerton", 432, "paperback"),
       author_names |-> <<"Jane Austen">>,
       category_names |-> <<"Fiction", "Romance", "Classic Literature">>],
      [content |-> SampleContent(<<"1984">>),
       book |-> SampleBook("Secker & Warburg", 328, "hardcover"),
       author_names |-> <<"George Orwell">>,
       category_names |-> <<"Fiction", "Dystopian", "Science Fiction">>],
      [content |-> SampleContent(<<"Murder", "on", "the", "Orient", "Express">>),
       book |-> SampleBook("Collins Crime Club", 256, "paperback"),
       author_names |-> <<"Agatha Christie">>,
       category_names |-> <<"Fiction", "Mystery">>],
      [content |-> SampleContent(<<"Foundation">>),
       book |-> SampleBook("Gnome Press", 244, "hardcover"),
       author_names |-> <<"Isaac Asimov">>,
       category_names |-> <<"Science Fiction", "Fiction">>],
      [content |-> SampleContent(<<"To", "the", "Lighthouse">>),
       book |-> SampleBook("Hogarth Press", 209, "hardcover"),
       author_names |-> <<"Virginia Woolf">>,
       category_names |-> <<"Fiction", "Modernist", "Classic Literature">>],
      [content |-> SampleContent(<<"Animal", "Farm">>),
       book |-> SampleBook("Secker & Warburg", 112, "paperback"),
       author_names |-> <<"George Orwell">>,
       category_names |-> <<"Fiction", "Political Satire">>],
      [content |-> SampleContent(<<"The", "Robots", "of", "Dawn">>),
       book |-> SampleBook("Doubleday", 384, "hardcover"),
       author_names |-> <<"Isaac Asimov">>,
       category_names |-> <<"Science Fiction", "Mystery", "Fiction">>],
      [content |-> SampleContent(<<"Emma">>),
       book |-> SampleBook("John Murray", 474, "paperback"),
       author_names |-> <<"Jane Austen">>,
       category_names |-> <<"Fiction", "Romance", "Classic Literature">>]>>

\* f"{author.first_name} {author.last_name}"
FullName(author) == author.first_name \o " " \o author.last_name

\* Lines 174-180: for each name, in order, the id of the first of the authors
\* just created that has it; a name none has adds no id. first_id is the id of
\* the first author created.
SampleAuthorIds(names, first_id) ==
    LET found == SelectSeq(names, LAMBDA name :
                     \E i \in DOMAIN SampleAuthors : FullName(SampleAuthors[i]) = name)
    IN [k \in DOMAIN found |->
           first_id - 1 + CHOOSE i \in DOMAIN SampleAuthors :
                              /\ FullName(SampleAuthors[i]) = found[k]
                              /\ \A j \in 1..(i - 1) : FullName(SampleAuthors[j]) # found[k]]

\* Lines 183-188: the same over the categories just created.
SampleCategoryIds(names, first_id) ==
    LET found == SelectSeq(names, LAMBDA name :
                     \E i \in DOMAIN SampleCategoryNames : SampleCategoryNames[i] = name)
    IN [k \in DOMAIN found |->
           first_id - 1 + CHOOSE i \in DOMAIN SampleCategoryNames :
                              /\ SampleCategoryNames[i] = found[k]
                              /\ \A j \in 1..(i - 1) : SampleCategoryNames[j] # found[k]]

\* len(ContentService.get_books(limit=1)) > 0: the statement of get_books,
\* limited to one row, returns a row exactly when a row passes its where
\* clause, whatever the order.
\* Variant: a book that is available.
has_sample_data_available ==
    \E id \in DOMAIN content :
        content[id].content_type = "book" /\ content[id].status = "available"

has_sample_data == \E id \in DOMAIN content : content[id].content_type = "book"

\* create_sample_data: create_author for each sample author, create_category
\* for each sample category, create_book for each sample book with the ids
\* found; every call commits for itself. The first call that raises (a
\* category name that is taken) ends it: what was committed stays, None is
\* returned. The lists of a sample book repeat no name and name only rows
\* just created, so its create_book does not raise.
create_sample_data ==
    LET taken == {k \in DOMAIN SampleCategoryNames :
                    \E i \in DOMAIN categories : categories[i].name = SampleCategoryNames[k]}
        first_content == Len(content) + 1
        first_author == Len(authors) + 1
        first_category == Len(categories) + 1
        empty == /\ content = <<>>
                 /\ authors = <<>>
                 /\ categories = <<>>
    IN /\ authors' = authors \o SampleAuthors
       /\ IF taken # {}
          THEN /\ categories' =
                     categories \o
                     [k \in 1..((CHOOSE k \in taken : \A l \in taken : k <= l) - 1) |->
                         [name |-> SampleCategoryNames[k], parent_id |-> 0]]
               /\ ret' = [Ret("create_sample_data", 0, "none") EXCEPT
                             !.args = Some([empty |-> empty])]
               /\ UNCHANGED <<content, ext, content_authors, content_categories>>
          ELSE /\ categories' =
                     categories \o
                     [k \in DOMAIN SampleCategoryNames |->
                         [name |-> SampleCategoryNames[k], parent_id |-> 0]]
               /\ content' =
                     content \o [j \in DOMAIN sample_books |-> NewContent(sample_books[j].content)]
               /\ ext' = [ext EXCEPT !["books"] =
                             @ \o [j \in DOMAIN sample_books |->
                                      NewBook(sample_books[j].book, first_content - 1 + j)]]
               /\ content_authors' =
                     content_authors \cup
                     UNION {AuthorRows(first_content - 1 + j,
                                       SampleAuthorIds(sample_books[j].author_names, first_author)) :
                            j \in DOMAIN sample_books}
               /\ content_categories' =
                     content_categories \cup
                     UNION {CategoryRows(first_content - 1 + j,
                                         SampleCategoryIds(sample_books[j].category_names,
                                                           first_category)) :
                            j \in DOMAIN sample_books}
               /\ ret' = [Ret("create_sample_data", first_content, "books") EXCEPT
                             !.args = Some([empty |-> empty])]

\* Runs at startup, before any request: no create_book call is in flight.
\* The authors a failed seed leaves behind are bounded by MaxAuthors.
initialize_sample_data_if_needed ==
    /\ call.pc = "idle"
    /\ reading.pc = "idle"
    /\ IF has_sample_data
       THEN /\ ret' = Ret("initialize_sample_data_if_needed", 0, "none")
            /\ UNCHANGED tables
       ELSE /\ Len(authors) <= MaxAuthors
            /\ create_sample_data
    /\ UNCHANGED <<now, call, returned, reading>>

\* ------------------------------------------------------- reads as calls
read_all_authors ==
    /\ \E result \in get_all_authors :
          ret' = [Ret("get_all_authors", 0, "value") EXCEPT !.value = Some(result)]
    /\ UNCHANGED <<content, ext, content_authors, content_categories, authors, categories, now,
                   call, returned, reading>>

read_root_categories ==
    /\ \E result \in get_root_categories :
          ret' = [Ret("get_root_categories", 0, "value") EXCEPT !.value = Some(result)]
    /\ UNCHANGED <<content, ext, content_authors, content_categories, authors, categories, now,
                   call, returned, reading>>

\* A read opens a session, selects and returns: it writes nothing. ret.value
\* holds Some(what the call returned).
read_content_by_id(ContentIds) ==
    /\ \E content_id \in ContentIds :
          ret' = [Ret("get_content_by_id", content_id, "value") EXCEPT
                    !.value = Some(get_content_by_id(content_id))]
    /\ UNCHANGED <<content, ext, content_authors, content_categories, authors, categories, now,
                   call, returned, reading>>

\* Variant: content.content_type is read before content is compared with None.
read_content_with_details_unchecked(ContentIds) ==
    /\ \E content_id \in ContentIds :
          ret' = IF content_id \in DOMAIN content
                 THEN [Ret("get_content_with_details", content_id, "value") EXCEPT
                         !.value = Some(get_content_with_details(content_id))]
                 ELSE Ret("get_content_with_details", content_id, "raised")
    /\ UNCHANGED <<content, ext, content_authors, content_categories, authors, categories, now,
                   call, returned, reading>>

read_content_with_details(ContentIds) ==
    /\ \E content_id \in ContentIds :
          ret' = [Ret("get_content_with_details", content_id, "value") EXCEPT
                    !.value = Some(get_content_with_details(content_id))]
    /\ UNCHANGED <<content, ext, content_authors, content_categories, authors, categories, now,
                   call, returned, reading>>

\* ------------------------------------- get_content_with_details, statement by statement
\* The call reads in four statements, each of which sees what is committed
\* when it runs: session.get(Content, content_id) (line 80); the select of
\* get_content_authors, in a session of its own (line 86); the select of
\* get_content_categories, in a session of its own (line 87); the select on
\* the extension table (lines 92-104).
details_get(ContentIds) ==
    /\ reading.pc = "idle"
    /\ \E content_id \in ContentIds :
          IF content_id \notin DOMAIN content
          THEN /\ ret' = [Ret("get_content_with_details", content_id, "value") EXCEPT
                             !.value = Some(None)]
               /\ reading' = reading
          ELSE /\ reading' = [NoRead EXCEPT !.pc = "got", !.id = content_id,
                                            !.content = Some(content[content_id])]
               /\ ret' = ret
    /\ UNCHANGED <<content, ext, content_authors, content_categories, authors, categories, now,
                   call, returned>>

details_authors ==
    /\ reading.pc = "got"
    /\ reading' = [reading EXCEPT !.pc = "authors", !.authors = get_content_authors(reading.id)]
    /\ UNCHANGED <<content, ext, content_authors, content_categories, authors, categories, now,
                   call, ret, returned>>

details_categories ==
    /\ reading.pc = "authors"
    /\ reading' = [reading EXCEPT !.pc = "categories",
                                  !.categories = get_content_categories(reading.id)]
    /\ UNCHANGED <<content, ext, content_authors, content_categories, authors, categories, now,
                   call, ret, returned>>

details_extended_info ==
    /\ reading.pc = "categories"
    /\ ret' = [Ret("get_content_with_details", reading.id, "value") EXCEPT
                 !.value = Some(Some([content |-> reading.content[1],
                                      authors |-> reading.authors,
                                      categories |-> reading.categories,
                                      extended_info |->
                                          FirstExt(ExtTable[reading.content[1].content_type],
                                                   reading.id)]))]
    /\ reading' = NoRead
    /\ UNCHANGED <<content, ext, content_authors, content_categories, authors, categories, now,
                   call, returned>>

\* One count query per member of ContentType; `count or 0`.
\* Variant: the status clause is left out.
CountAvailable_any_status(content_type) ==
    Cardinality({id \in DOMAIN content : content[id].content_type = content_type})

CountAvailable(content_type) ==
    Cardinality({id \in DOMAIN content :
        content[id].content_type = content_type /\ content[id].status = "available"})

get_available_content_count == [t \in ContentType |-> CountAvailable(t)]

\* cutoff_date = utcnow() - timedelta(days=days); where created_at >=
\* cutoff_date, order by created_at desc, limit. days counts units of the clock.
get_recent_content(days, limit) ==
    {Limit(s, limit) :
        s \in OrderByCreatedDesc({id \in DOMAIN content : content[id].created_at >= now - days})}

\* The store of InitStatus after update_content_status(id, CHECKED_OUT) for
\* some of the books, at time 0.
InitReads ==
    /\ now = 0
    /\ authors = <<[first_name |-> "Jane", last_name |-> "Austen"]>>
    /\ categories = <<[name |-> "Fiction", parent_id |-> 0]>>
    /\ \E n \in 1..MaxRows, content_data \in CoreContentData, book_data \in BookData,
          checked_out \in SUBSET (1..MaxRows) :
          /\ content = [id \in 1..n |->
                           IF id \in checked_out
                           THEN [NewContent(content_data) EXCEPT !.status = "checked_out"]
                           ELSE NewContent(content_data)]
          /\ ext = [t \in ExtTables |->
                       IF t = "books" THEN [id \in 1..n |-> NewBook(book_data, id)] ELSE <<>>]
          /\ content_authors = {<<id, 1>> : id \in 1..n}
          /\ content_categories = {<<id, 1>> : id \in 1..n}
          /\ returned = 1..n
    /\ call = NoCall
    /\ ret = NoRet
    /\ reading = NoRead

\* ------------------------------------------------- the other reads as calls
\* What the reads of the read specification are called with.
ReadQueries == {<<>>, <<"a">>}
ReadTypes == {None, Some("book")}
ReadLimits == {1, MaxRows}
ReadDays == {0, MaxClock}
ReadAuthorQueries == {<<>>, <<"j", "A">>}

\* Variant: the session is committed with the rows returned checked out.
read_search_content_checks_out ==
    /\ \E query \in ReadQueries, content_type \in ReadTypes, available_only \in BOOLEAN,
          limit \in ReadLimits :
          \E result \in search_content(query, content_type, available_only, limit) :
              /\ ret' = [Ret("search_content", 0, "value") EXCEPT
                           !.args = Some(<<query, content_type, available_only, limit>>),
                           !.value = Some(result)]
              /\ content' = [id \in DOMAIN content |->
                                IF \E i \in DOMAIN result : result[i] = id
                                THEN [content[id] EXCEPT !.status = "checked_out"]
                                ELSE content[id]]
    /\ UNCHANGED <<ext, content_authors, content_categories, authors, categories, now,
                   call, returned, reading>>

read_search_content ==
    /\ \E query \in ReadQueries, content_type \in ReadTypes, available_only \in BOOLEAN,
          limit \in ReadLimits :
          \E result \in search_content(query, content_type, available_only, limit) :
              ret' = [Ret("search_content", 0, "value") EXCEPT
                        !.args = Some(<<query, content_type, available_only, limit>>),
                        !.value = Some(result)]
    /\ UNCHANGED <<content, ext, content_authors, content_categories, authors, categories, now,
                   call, returned, reading>>

read_books ==
    /\ \E limit \in ReadLimits :
          \E result \in get_books(limit) :
              ret' = [Ret("get_books", 0, "value") EXCEPT
                        !.args = Some(<<limit>>), !.value = Some(result)]
    /\ UNCHANGED <<content, ext, content_authors, content_categories, authors, categories, now,
                   call, returned, reading>>

read_content_authors(ContentIds) ==
    /\ \E content_id \in ContentIds :
          ret' = [Ret("get_content_authors", content_id, "value") EXCEPT
                    !.value = Some(get_content_authors(content_id))]
    /\ UNCHANGED <<content, ext, content_authors, content_categories, authors, categories, now,
                   call, returned, reading>>

read_content_categories(ContentIds) ==
    /\ \E content_id \in ContentIds :
          ret' = [Ret("get_content_categories", content_id, "value") EXCEPT
                    !.value = Some(get_content_categories(content_id))]
    /\ UNCHANGED <<content, ext, content_authors, content_categories, authors, categories, now,
                   call, returned, reading>>

read_available_content_count ==
    /\ ret' = [Ret("get_available_content_count", 0, "value") EXCEPT
                 !.value = Some(get_available_content_count)]
    /\ UNCHANGED <<content, ext, content_authors, content_categories, authors, categories, now,
                   call, returned, reading>>

read_recent_content ==
    /\ \E days \in ReadDays, limit \in ReadLimits :
          \E result \in get_recent_content(days, limit) :
              ret' = [Ret("get_recent_content", 0, "value") EXCEPT
                        !.args = Some(<<days, limit>>), !.value = Some(result)]
    /\ UNCHANGED <<content, ext, content_authors, content_categories, authors, categories, now,
                   call, returned, reading>>

read_search_authors ==
    /\ \E query \in ReadAuthorQueries :
          \E result \in search_authors(query) :
              ret' = [Ret("search_authors", 0, "value") EXCEPT
                        !.args = Some(<<query>>), !.value = Some(result)]
    /\ UNCHANGED <<content, ext, content_authors, content_categories, authors, categories, now,
                   call, returned, reading>>

read_all_categories ==
    /\ \E result \in get_all_categories :
          ret' = [Ret("get_all_categories", 0, "value") EXCEPT !.value = Some(result)]
    /\ UNCHANGED <<content, ext, content_authors, content_categories, authors, categories, now,
                   call, returned, reading>>

\* --------------------------------------------------------- specifications
Next ==
    \/ create_book_insert(MaxContent, CoreContentData, BookData, IdLists(AuthorIds),
                          IdLists(CategoryIds))
    \/ create_book_commit
    \/ create_book_rollback
    \/ update_content_status(Ids(MaxContent))
    \/ create_author(MaxAuthors, FirstNames, LastNames)
    \/ create_category(MaxCategories, NextSampleName, {0})

Spec == Init /\ [][Next]_vars

\* The catalogue as the reads see it: books created without associations,
\* rows of every type and of two statuses written directly, and the clock.
NextCatalogue ==
    \/ create_book_insert(MaxRows, CatalogueContentData, BookData, {<<>>}, {<<>>})
    \/ create_book_commit
    \/ insert_content_direct
    \/ Tick

SpecCatalogue == Init /\ [][NextCatalogue]_vars

\* Every operation that writes, with lists of at most one id.
NextWrites ==
    \/ create_book_insert(MaxContent, CoreContentData, BookData, ShortLists(AuthorIds),
                          ShortLists(CategoryIds))
    \/ create_book_commit
    \/ create_book_rollback
    \/ update_content_status(Ids(MaxContent))
    \/ create_author(MaxAuthors, FirstNames, LastNames)
    \/ create_category(MaxCategories, NextSampleName, {0})
SpecWrites == Init /\ [][NextWrites]_vars

\* The seed at the start of a process, over the stores earlier processes
\* left: with books of users in any status, with authors and categories only,
\* or seeded.
NextSeed ==
    \/ initialize_sample_data_if_needed
    \/ create_author(MaxAuthors, FirstNames, LastNames)
    \/ create_category(MaxCategories, NextSampleName, {0})
    \/ create_book_insert(MaxContent, CoreContentData, BookData, {<<>>}, {<<>>})
    \/ create_book_commit
    \/ update_content_status(Ids(MaxContent))
SpecSeed == Init /\ [][NextSeed]_vars

\* Every read of the three services, over the stores InitReads draws, as the
\* clock moves.
NextReads ==
    \/ read_search_content
    \/ read_content_by_id(Ids(MaxRows))
    \/ read_books
    \/ read_content_with_details(Ids(MaxRows))
    \/ read_content_authors(Ids(MaxRows))
    \/ read_content_categories(Ids(MaxRows))
    \/ read_available_content_count
    \/ read_recent_content
    \/ read_all_authors
    \/ read_search_authors
    \/ read_all_categories
    \/ read_root_categories
    \/ Tick
SpecReads == InitReads /\ [][NextReads]_vars

\* The category service called with no parent or with the id of a category
\* that exists when the call is made.
NextTree ==
    \/ create_category(MaxTree, CategoryNames, {0} \cup DOMAIN categories)
    \/ read_root_categories
SpecTree == Init /\ [][NextTree]_vars

\* get_content_with_details of one caller, statement by statement, beside
\* create_book of another, given the first author and the first category.
NextSnapshot ==
    \/ create_author(MaxAuthors, FirstNames, LastNames)
    \/ create_category(MaxCategories, NextSampleName, {0})
    \/ create_book_insert(MaxContent, CoreContentData, BookData, {<<1>>}, {<<1>>})
    \/ create_book_commit
    \/ create_book_rollback
    \/ details_get(Ids(MaxContent))
    \/ details_authors
    \/ details_categories
    \/ details_extended_info
SpecSnapshot == Init /\ [][NextSnapshot]_vars

\* Status updates, as the clock moves, of the stores InitStatus draws.
NextStatus ==
    \/ update_content_status(Ids(MaxRows))
    \/ Tick
SpecStatus == InitStatus /\ [][NextStatus]_vars

\* create_book with every content_type and every book field among its inputs,
\* and the status updates of other callers.
NextCreate ==
    \/ create_book_insert(MaxContent, CreateContentData, CreateBookData, {<<>>}, {<<>>})
    \/ create_book_commit
    \/ update_content_status(Ids(MaxContent))
SpecCreate == Init /\ [][NextCreate]_vars

\* The author service: authors of a few names, created and listed.
NextAuthors ==
    \/ create_author(MaxPeople, RefFirstNames, RefLastNames)
    \/ read_all_authors
SpecAuthors == Init /\ [][NextAuthors]_vars

\* The category service: categories of a few names, under any parent id a
\* caller can give, created and their roots listed.
NextCategories ==
    \/ create_category(MaxTree, CategoryNames, {0} \cup Ids(MaxTree))
    \/ read_root_categories
SpecCategories == Init /\ [][NextCategories]_vars

\* The two reads by id, applied to the stores InitDetails draws.
NextDetails ==
    \/ read_content_by_id(Ids(MaxRows))
    \/ read_content_with_details(Ids(MaxRows))
SpecDetails == InitDetails /\ [][NextDetails]_vars

\* ==================================================================== claims
\* Rows of the extension tables that reference a content id, as <<table, row id>>.
ExtRowsFor(content_id) ==
    {p \in UNION {{<<t, i>> : i \in DOMAIN ext[t]} : t \in ExtTables} :
        ext[p[1]][p[2]].content_id = content_id}

BooksFor(content_id) ==
    {i \in DOMAIN ext["books"] : ext["books"][i].content_id = content_id}

Range(s) == {s[i] : i \in DOMAIN s}

\* C1: when a create_book call raises, no Content, Book, ContentAuthor or
\* ContentCategory row written by that call is in the store.
C1_AllOrNothing ==
    (ret.op = "create_book" /\ ret.result = "raised") =>
        /\ get_content_by_id(ret.id) = None
        /\ BooksFor(ret.id) = {}
        /\ \A row \in content_authors \cup content_categories : row[1] # ret.id

\* C2: while a create_book call has not returned, a read that sees its Content
\* row also sees its Book row and every junction row it asked for.
C2_VisibleAsUnit ==
    (call.pc = "inserted" /\ get_content_by_id(call.id) # None) =>
        /\ BooksFor(call.id) # {}
        /\ AuthorRows(call.id, call.author_ids) \subseteq content_authors
        /\ CategoryRows(call.id, call.category_ids) \subseteq content_categories

\* C3: when no call is in flight, every Content row has exactly one extension
\* row, in the table of its content_type, and every Book row references an
\* existing Content row.
C3_OneExtensionPerContent ==
    call.pc = "idle" =>
        /\ \A id \in DOMAIN content :
              /\ Cardinality(ExtRowsFor(id)) = 1
              /\ \A p \in ExtRowsFor(id) : p[1] = ExtTable[content[id].content_type]
        /\ \A i \in DOMAIN ext["books"] : ext["books"][i].content_id \in DOMAIN content

\* C4: for every Content create_book has returned, now and ever after, exactly
\* one Book row references its id and get_content_with_details returns a result
\* whose extended_info is that row.
C4_ReturnedBookHasExtension ==
    \A id \in returned :
        /\ Cardinality(BooksFor(id)) = 1
        /\ get_content_with_details(id) # None
        /\ \A i \in BooksFor(id) :
              get_content_with_details(id)[1].extended_info = Some(ext["books"][i])

\* A returned book whose status has since been changed.
C4_Witness ==
    \E id \in returned :
        /\ content[id].status = "reserved"
        /\ get_content_with_details(id)[1].extended_info # None

C6_AnyTransition ==
    (ret.op = "update_content_status" /\ ret.id \in DOMAIN content) =>
        /\ ret.result = "true"
        /\ get_content_by_id(ret.id) # None
        /\ get_content_by_id(ret.id)[1].status = ret.status

\* An update to maintenance that returned true, on a book create_book returned.
C6_Witness ==
    /\ ret.op = "update_content_status"
    /\ ret.result = "true"
    /\ ret.status = "maintenance"
    /\ ret.id \in returned
    /\ content[ret.id].status = "maintenance"

\* C7: update_content_status on an id with no Content row returns false (it
\* does not raise) and changes no table.
C7_NotFoundIsNoOp ==
    [][(ret'.op = "update_content_status" /\ ret'.id \notin DOMAIN content) =>
          (ret'.result = "false" /\ tables' = tables)]_vars

\* A miss on a store that holds a Content row.
C7_Witness ==
    /\ ret.op = "update_content_status"
    /\ ret.result = "false"
    /\ ret.id \notin DOMAIN content
    /\ Len(content) > 0

\* C8: get_available_content_count has the four content types as its keys, and
\* maps each to the number of Content rows of that type that are available.
C8_CountPerType ==
    /\ DOMAIN get_available_content_count = ContentType
    /\ \A t \in ContentType :
          get_available_content_count[t] =
              Len(SelectSeq(content, LAMBDA row : row.content_type = t /\ row.status = "available"))

\* An available article beside a checked-out book.
C8_Witness ==
    /\ get_available_content_count["article"] = 1
    /\ get_available_content_count["book"] = 0
    /\ get_available_content_count["magazine"] = 0
    /\ \E id \in DOMAIN content :
          content[id].content_type = "book" /\ content[id].status = "checked_out"

\* query occurs in s, letter case apart.
ContainsCI(s, query) ==
    \E i \in 1..(Len(s) - Len(query) + 1) :
        SubSeq(Lower(s), i, i + Len(query) - 1) = Lower(query)

\* C9: for a non-empty query, a Content row passes the text filter of
\* search_content iff the query occurs, letter case apart, as a literal
\* substring of its title or of its description.
C9_LiteralSubstring ==
    \A id \in DOMAIN content, query \in Strings \ {<<>>} :
        search_filter(content[id], query) <=>
            (ContainsCI(content[id].title, query) \/ ContainsCI(content[id].description, query))

Queries == {<<>>, <<"a">>, <<"b">>}
TypeFilters == {None} \cup {Some(t) : t \in ContentType}
Limits == 0..(MaxRows + 1)

\* C10: every item search_content returns has the content_type asked for, if
\* one is; is available, if available_only; and when the items that pass the
\* text, type and availability filters number at most limit, all are returned.
C10_FiltersConjoined ==
    \A query \in Queries, content_type \in TypeFilters, available_only \in BOOLEAN,
       limit \in Limits :
        \A result \in search_content(query, content_type, available_only, limit) :
            /\ content_type # None =>
                  \A i \in DOMAIN result : content[result[i]].content_type = content_type[1]
            /\ available_only =>
                  \A i \in DOMAIN result : content[result[i]].status = "available"
            /\ LET eligible ==
                       {id \in DOMAIN content :
                           /\ query # <<>> => search_filter(content[id], query)
                           /\ content_type # None => content[id].content_type = content_type[1]
                           /\ available_only => content[id].status = "available"}
               IN Cardinality(eligible) <= limit => eligible \subseteq Range(result)

\* An article beside a checked-out book: the search for books of any status
\* returns the book alone, and the search for available books returns nothing.
C10_Witness ==
    /\ Len(content) = 2
    /\ \E id \in DOMAIN content : content[id].content_type = "article"
    /\ \E result \in search_content(<<>>, Some("book"), FALSE, 2) :
          /\ Len(result) = 1
          /\ content[result[1]].status = "checked_out"
    /\ search_content(<<>>, Some("book"), TRUE, 2) = {<<>>}

Min(a, b) == IF a < b THEN a ELSE b

\* C11: search_content with the empty query browses: whatever the type filter,
\* the availability filter and the limit, a result holds only rows that pass
\* the two filters, none twice, newest first; it holds min(limit, number of
\* rows that pass) rows; and no row that passes and is left out was created
\* later than a row of the result.
C11_EmptyQueryBrowses ==
    \A content_type \in TypeFilters, available_only \in BOOLEAN, limit \in Limits :
        LET eligible ==
                {id \in DOMAIN content :
                    /\ content_type # None => content[id].content_type = content_type[1]
                    /\ available_only => content[id].status = "available"}
        IN \A result \in search_content(<<>>, content_type, available_only, limit) :
               /\ Range(result) \subseteq eligible
               /\ Cardinality(Range(result)) = Len(result)
               /\ Len(result) = Min(limit, Cardinality(eligible))
               /\ \A i \in DOMAIN result, j \in DOMAIN result :
                     i < j => content[result[j]].created_at <= content[result[i]].created_at
               /\ \A omitted \in eligible \ Range(result), i \in DOMAIN result :
                     content[omitted].created_at <= content[result[i]].created_at

\* Two rows created at different times, browsed with limit 1: the later row
\* alone is returned.
C11_Witness ==
    /\ Len(content) = 2
    /\ content[1].created_at < content[2].created_at
    /\ search_content(<<>>, None, FALSE, 1) = {<<2>>}

\* C12: get_content_by_id and get_content_with_details called with an id that
\* no Content row has return None, without raising, and leave every table as
\* it was.
C12_MissingIdIsAbsent ==
    [][(/\ ret'.op \in {"get_content_by_id", "get_content_with_details"}
        /\ ret'.id \notin DOMAIN content)
       => (/\ ret'.result = "value"
           /\ ret'.value = Some(None)
           /\ tables' = tables)]_vars

\* get_content_with_details has been called with an id past the last row of a
\* store that holds content and an extension row.
C12_Witness ==
    /\ ret.op = "get_content_with_details"
    /\ content # <<>>
    /\ ret.id \notin DOMAIN content
    /\ ext["books"] # <<>>
    /\ ret.value = Some(None)

\* C13: for an existing Content id, the extended_info get_content_with_details
\* returns is the row, of the extension table its content_type selects, that
\* references the id; it is None when that table has no such row, whatever
\* the other extension tables hold.
C13_ExtensionOfOwnType ==
    (ret.op = "get_content_with_details" /\ ret.id \in DOMAIN content) =>
        LET own == ext[ExtTable[content[ret.id].content_type]]
            rows == {i \in DOMAIN own : own[i].content_id = ret.id}
            info == ret.value[1][1].extended_info
        IN /\ rows = {} => info = None
           /\ rows # {} => \E i \in rows : info = Some(own[i])

\* The details of an article that has no Article row and that a Book row
\* references: extended_info is None.
C13_Witness ==
    /\ ret.op = "get_content_with_details"
    /\ ret.id \in DOMAIN content
    /\ content[ret.id].content_type = "article"
    /\ \A i \in DOMAIN ext["articles"] : ext["articles"][i].content_id # ret.id
    /\ \E i \in DOMAIN ext["books"] : ext["books"][i].content_id = ret.id
    /\ ret.value[1][1].extended_info = None

\* C14: whatever content_type its content_data carries, the Content a
\* successful create_book returns has content_type book, as has the row
\* of every Content create_book has returned.
C14_TypeForcedToBook ==
    /\ (ret.op = "create_book" /\ ret.result = "content") =>
           /\ ret.args[1].content_data.content_type \in ContentType
           /\ get_content_by_id(ret.id) # None
           /\ get_content_by_id(ret.id)[1].content_type = "book"
    /\ \A id \in returned : content[id].content_type = "book"

\* create_book has returned a Content for content_data of type multimedia.
C14_Witness ==
    /\ ret.op = "create_book"
    /\ ret.result = "content"
    /\ ret.args[1].content_data.content_type = "multimedia"
    /\ ret.id \in returned

\* C15: when create_book(content_data, book_data) has returned a Content,
\* get_content_by_id of its id returns a row whose title, description, isbn,
\* language and tags are those of content_data, and get_content_with_details
\* of its id an extended_info whose publisher, page_count, edition and format
\* are those of book_data.
C15_CreateReadRoundTrip ==
    (ret.op = "create_book" /\ ret.result = "content") =>
        LET content_data == ret.args[1].content_data
            book_data == ret.args[1].book_data
            row == get_content_by_id(ret.id)
            details == get_content_with_details(ret.id)
        IN /\ row # None
           /\ row[1].title = content_data.title
           /\ row[1].description = content_data.description
           /\ row[1].isbn = content_data.isbn
           /\ row[1].language = content_data.language
           /\ row[1].tags = content_data.tags
           /\ details # None
           /\ details[1].extended_info # None
           /\ details[1].extended_info[1].publisher = book_data.publisher
           /\ details[1].extended_info[1].page_count = book_data.page_count
           /\ details[1].extended_info[1].edition = book_data.edition
           /\ details[1].extended_info[1].format = book_data.format

\* create_book has returned for an article in French with an isbn and a tag,
\* in hardcover with a page count, whose status another caller changed
\* before the call returned.
C15_Witness ==
    /\ ret.op = "create_book"
    /\ ret.result = "content"
    /\ ret.args[1].content_data.isbn # None
    /\ ret.args[1].content_data.language = "French"
    /\ ret.args[1].book_data.format = "hardcover"
    /\ ret.args[1].book_data.page_count # None
    /\ content[ret.id].status = "reserved"

\* C16: create_category called with the name of an existing category raises
\* a uniqueness error, adds no row and changes no row; and in no reachable
\* state do two categories have the same name.
C16_NameUnique ==
    /\ [](\A i, j \in DOMAIN categories : categories[i].name = categories[j].name => i = j)
    /\ [][(/\ ret'.op = "create_category"
            /\ \E i \in DOMAIN categories : categories[i].name = ret'.args[1].name)
           => (/\ ret'.result = "raised"
               /\ ret'.value = Some("unique")
               /\ tables' = tables)]_vars

\* create_category has raised for the name of the first of two categories.
C16_Witness ==
    /\ ret.op = "create_category"
    /\ ret.result = "raised"
    /\ ret.value = Some("unique")
    /\ Len(categories) = 2
    /\ categories[1].name = ret.args[1].name

\* C17: get_root_categories returns the categories whose parent_id is None,
\* each once, and no other.
C17_RootsHaveNoParent ==
    \A result \in get_root_categories :
        /\ \A id \in DOMAIN categories :
              id \in Range(result) <=> categories[id].parent_id = 0
        /\ \A i, j \in DOMAIN result : result[i] = result[j] => i = j
        /\ Range(result) \subseteq DOMAIN categories

\* A root and its child: get_root_categories has returned the root alone.
C17_Witness ==
    /\ Len(categories) = 2
    /\ categories[1].parent_id = 0
    /\ categories[2].parent_id = 1
    /\ ret.op = "get_root_categories"
    /\ ret.value = Some(<<1>>)
    /\ get_root_categories = {<<1>>}

\* C18: a create_book call one of whose author ids or category ids has no row
\* when the call ends has raised; and every row of content_authors references
\* an Author row, every row of content_categories a Category row.
C18_NoDanglingAssociation ==
    /\ (/\ ret.op = "create_book"
        /\ \/ \E i \in DOMAIN ret.author_ids : ret.author_ids[i] \notin DOMAIN authors
           \/ \E i \in DOMAIN ret.category_ids : ret.category_ids[i] \notin DOMAIN categories)
       => ret.result = "raised"
    /\ \A row \in content_authors : row[2] \in DOMAIN authors
    /\ \A row \in content_categories : row[2] \in DOMAIN categories

\* create_book, given the id of the one author and an id past it, has raised
\* and left no association of the new content behind.
C18_Witness ==
    /\ ret.op = "create_book"
    /\ ret.result = "raised"
    /\ Len(authors) = 1
    /\ ret.author_ids = <<1, 2>>
    /\ ret.category_ids = <<>>
    /\ get_content_authors(ret.id) = {}

\* C19: create_author called with names an Author row already has succeeds:
\* it adds one row with those names under an id, not None, that no other row
\* has, changes no other row, and every result of get_all_authors then
\* holds the new row and every older row of the same names.
C19_DuplicateAuthorsAllowed ==
    [][(/\ ret'.op = "create_author"
        /\ \E i \in DOMAIN authors : authors[i] = ret'.args[1])
       => (/\ ret'.result = "author"
           /\ ret'.id # 0
           /\ ret'.id \notin DOMAIN authors
           /\ DOMAIN authors' = DOMAIN authors \cup {ret'.id}
           /\ authors'[ret'.id] = ret'.args[1]
           /\ \A i \in DOMAIN authors : authors'[i] = authors[i]
           /\ \A result \in get_all_authors' :
                 \A i \in DOMAIN authors' :
                     authors'[i] = ret'.args[1] =>
                         Cardinality({k \in DOMAIN result : result[k] = i}) = 1)]_vars

\* create_author has returned the second of two rows for Jane Austen.
C19_Witness ==
    /\ ret.op = "create_author"
    /\ ret.result = "author"
    /\ ret.id = 2
    /\ authors[1] = [first_name |-> "Jane", last_name |-> "Austen"]
    /\ authors[2] = authors[1]
    /\ get_all_authors = {<<1, 2>>, <<2, 1>>}

\* C20: every result of get_all_authors holds each Author row once and no
\* other, and of two neighbours the later has the greater last_name or, the
\* last_name being the same, a first_name that is not less.
C20_AuthorsSorted ==
    \A result \in get_all_authors :
        /\ Len(result) = Len(authors)
        /\ \A id \in DOMAIN authors : Cardinality({k \in DOMAIN result : result[k] = id}) = 1
        /\ \A k \in 1..(Len(result) - 1) :
              LET a == authors[result[k]]
                  b == authors[result[k + 1]]
              IN \/ Rank(a.last_name) < Rank(b.last_name)
                 \/ a.last_name = b.last_name /\ Rank(a.first_name) <= Rank(b.first_name)

\* George Orwell, Jane Austen and George Austen, created in that order, have
\* been listed: George Austen, Jane Austen, George Orwell.
C20_Witness ==
    /\ Len(authors) = 3
    /\ authors[1] = [first_name |-> "George", last_name |-> "Orwell"]
    /\ authors[2] = [first_name |-> "Jane", last_name |-> "Austen"]
    /\ authors[3] = [first_name |-> "George", last_name |-> "Austen"]
    /\ ret.op = "get_all_authors"
    /\ ret.value = Some(<<3, 2, 1>>)
    /\ get_all_authors = {<<3, 2, 1>>}

\* Queries of the author search: none, parts of names in either case, a text
\* no name holds, and the two LIKE wildcards.
AuthorQueries ==
    {<<>>, <<"j", "A">>, <<"e", "l", "l">>, <<"G", "e", "o", "r", "g", "e">>, <<"z">>,
     <<"_">>, <<"%">>}

\* C21: every result of search_authors(query) holds exactly the authors in
\* whose first_name or last_name the query occurs, letter case apart, as a
\* literal substring; it is empty when there is none.
C21_AuthorLiteralSubstring ==
    \A query \in AuthorQueries :
        /\ search_authors(query) # {}
        /\ \A result \in search_authors(query) :
              Range(result) =
                  {id \in DOMAIN authors :
                      \/ ContainsCI(Spelling[authors[id].first_name], query)
                      \/ ContainsCI(Spelling[authors[id].last_name], query)}

\* C22: every result of get_books(limit) holds rows of content_type book
\* only, whatever their status, none twice, of two neighbours the later not
\* created after the earlier, and it holds min(limit, number of book rows)
\* rows.
C22_BooksOnly ==
    \A limit \in Limits :
        \A result \in get_books(limit) :
            /\ \A k \in DOMAIN result :
                  /\ result[k] \in DOMAIN content
                  /\ content[result[k]].content_type = "book"
            /\ \A i, j \in DOMAIN result : result[i] = result[j] => i = j
            /\ \A k \in 1..(Len(result) - 1) :
                  content[result[k + 1]].created_at <= content[result[k]].created_at
            /\ Len(result) =
                  Min(limit, Len(SelectSeq(content, LAMBDA row : row.content_type = "book")))

\* A checked-out book and a later book: get_books returns the later alone
\* for limit 1 and both, the later first, for limit 2.
C22_Witness ==
    /\ Len(content) = 2
    /\ content[1].content_type = "book"
    /\ content[1].status = "checked_out"
    /\ content[2].content_type = "book"
    /\ content[1].created_at < content[2].created_at
    /\ get_books(1) = {<<2>>}
    /\ get_books(2) = {<<2, 1>>}

\* C23: a create_book call raises the count of available books by one when
\* it inserts its Content and changes no other count; and when it has returned
\* a Content, the row of that Content has status available and every result
\* of search_content with the default filters, the limit not below the number
\* of rows, holds it.
C23_CreatedAvailable ==
    /\ [][(call.pc = "idle" /\ call'.pc = "inserted")
           => (/\ CountAvailable("book")' = CountAvailable("book") + 1
               /\ \A t \in ContentType \ {"book"} : CountAvailable(t)' = CountAvailable(t))]_vars
    /\ []((ret.op = "create_book" /\ ret.result = "content") =>
             /\ content[ret.id].status = "available"
             /\ \A result \in search_content(<<>>, None, TRUE, Len(content)) :
                   ret.id \in Range(result))

\* C24: no step removes a Content row, or removes or changes a row of
\* content_authors or of content_categories: every Content id keeps its row,
\* with the title, content_type and created_at it had, and every junction row
\* stays as it is.
C24_RowsOnlyGrow ==
    [][/\ DOMAIN content \subseteq DOMAIN content'
       /\ \A id \in DOMAIN content :
             /\ content'[id].title = content[id].title
             /\ content'[id].content_type = content[id].content_type
             /\ content'[id].created_at = content[id].created_at
       /\ content_authors \subseteq content_authors'
       /\ content_categories \subseteq content_categories']_vars

\* A book with an author and a category whose status has since been
\* updated: its row and its two junction rows are there.
C24_Witness ==
    /\ ret.op = "update_content_status"
    /\ ret.result = "true"
    /\ content[1].status = "maintenance"
    /\ content_authors = {<<1, 1>>}
    /\ content_categories = {<<1, 1>>}

\* C25: an update_content_status call that returns true leaves the row of its
\* id as it was but for status, which is the status given, and updated_at,
\* which is the time of the call; every other Content row and every row of
\* the extension tables, the junction tables, authors and categories is as it
\* was, and no row is added.
C25_StatusFrame ==
    [][(ret'.op = "update_content_status" /\ ret'.result = "true" /\ now' = now)
       => (/\ DOMAIN content' = DOMAIN content
           /\ \A id \in DOMAIN content \ {ret'.id} : content'[id] = content[id]
           /\ content'[ret'.id] =
                 [content[ret'.id] EXCEPT !.status = ret'.status, !.updated_at = now]
           /\ \A field \in DOMAIN content[ret'.id] \ {"status", "updated_at"} :
                 content'[ret'.id][field] = content[ret'.id][field]
           /\ ext' = ext
           /\ content_authors' = content_authors
           /\ content_categories' = content_categories
           /\ authors' = authors
           /\ categories' = categories)]_vars

\* The first of two books, each with its Book row, an author and a category,
\* has been put in maintenance after the clock moved; the second is as
\* created.
C25_Witness ==
    /\ ret.op = "update_content_status"
    /\ ret.result = "true"
    /\ ret.id = 1
    /\ Len(content) = 2
    /\ content[1].status = "maintenance"
    /\ content[1].created_at < content[1].updated_at
    /\ content[2].status = "available"
    /\ content[2].updated_at = content[2].created_at
    /\ Len(ext["books"]) = 2
    /\ content_authors = {<<1, 1>>, <<2, 1>>}
    /\ content_categories = {<<1, 1>>, <<2, 1>>}

\* C26: when get_content_with_details has returned a result whose
\* extended_info is not None, the authors and the categories of the result
\* are all the authors and all the categories associated with the content.
C26_DetailsSnapshot ==
    (/\ ret.op = "get_content_with_details"
     /\ ret.value # Some(None)
     /\ ret.value[1][1].extended_info # None)
    => /\ ret.value[1][1].authors = get_content_authors(ret.id)
       /\ ret.value[1][1].categories = get_content_categories(ret.id)

\* parent_id, followed from the category id at most n times, comes to None.
RECURSIVE ReachesRoot(_, _)
ReachesRoot(id, n) ==
    \/ categories[id].parent_id = 0
    \/ /\ n > 0
       /\ categories[id].parent_id \in DOMAIN categories
       /\ ReachesRoot(categories[id].parent_id, n - 1)

\* C27: when every create_category call is given no parent or the id of a
\* category that exists when the call is made, parent_id followed from any
\* category comes, within as many steps as there are categories, to a
\* category without parent.
C27_Acyclic ==
    \A id \in DOMAIN categories : ReachesRoot(id, Len(categories))

\* create_category has returned a second category, the child of the first.
C27_Witness ==
    /\ ret.op = "create_category"
    /\ ret.result = "category"
    /\ ret.id = 2
    /\ categories[2].parent_id = 1
    /\ categories[1].parent_id = 0

\* The store holds what a seed of an empty store leaves first in every table.
SeededFromEmpty ==
    /\ Len(content) >= Len(sample_books)
    /\ \A j \in DOMAIN sample_books : content[j].title = sample_books[j].content.title
    /\ SubSeq(authors, 1, Len(SampleAuthors)) = SampleAuthors
    /\ Len(categories) >= Len(SampleCategoryNames)
    /\ \A k \in DOMAIN SampleCategoryNames : categories[k].name = SampleCategoryNames[k]

\* C28: initialize_sample_data_if_needed on an empty store creates the sample
\* books; once that has happened every further run creates no row of any
\* table; and a run on a store with at least one book, of any status, leaves
\* the store unchanged.
C28_SeedIdempotent ==
    [][initialize_sample_data_if_needed =>
          /\ (content = <<>> /\ authors = <<>> /\ categories = <<>>) => SeededFromEmpty'
          /\ SeededFromEmpty => tables' = tables
          /\ (\E id \in DOMAIN content : content[id].content_type = "book") =>
                 tables' = tables]_vars

\* The seed ran on an empty store, a book was then put in maintenance, and the seed
\* ran again: the store holds the sample rows and nothing more.
C28_Witness ==
    /\ ret.op = "initialize_sample_data_if_needed"
    /\ SeededFromEmpty
    /\ Len(content) = Len(sample_books)
    /\ Len(authors) = Len(SampleAuthors)
    /\ Len(categories) = Len(SampleCategoryNames)
    /\ \E id \in DOMAIN content : content[id].status = "maintenance"

\* C29: after create_sample_data on an empty store, every sample book has as
\* many author associations as its author_names has names and as many category
\* associations as its category_names has names.
C29_SampleBooksLinked ==
    (/\ ret.op = "create_sample_data"
     /\ ret.args = Some([empty |-> TRUE]))
    => \A j \in DOMAIN sample_books :
           /\ Cardinality(get_content_authors(ret.id - 1 + j)) =
                  Len(sample_books[j].author_names)
           /\ Cardinality(get_content_categories(ret.id - 1 + j)) =
                  Len(sample_books[j].category_names)

ReadOps ==
    {"search_content", "get_content_by_id", "get_books", "get_content_with_details",
     "get_content_authors", "get_content_categories", "get_available_content_count",
     "get_recent_content", "get_all_authors", "search_authors", "get_all_categories",
     "get_root_categories"}

\* The read that returned last, if it is not get_recent_content, called again
\* with what it was called with, can return what it returned.
LastReadRepeats ==
    LET args == ret.args[1]
        result == ret.value[1]
    IN /\ ret.op = "search_content" =>
              result \in search_content(args[1], args[2], args[3], args[4])
       /\ ret.op = "get_books" => result \in get_books(args[1])
       /\ (ret.op = "get_content_by_id" /\ ret.result = "value") =>
              result = get_content_by_id(ret.id)
       /\ (ret.op = "get_content_with_details" /\ ret.result = "value") =>
              result = get_content_with_details(ret.id)
       /\ ret.op = "get_content_authors" => result = get_content_authors(ret.id)
       /\ ret.op = "get_content_categories" => result = get_content_categories(ret.id)
       /\ ret.op = "get_available_content_count" => result = get_available_content_count
       /\ ret.op = "get_all_authors" => result \in get_all_authors
       /\ ret.op = "search_authors" => result \in search_authors(args[1])
       /\ ret.op = "get_all_categories" => result \in get_all_categories
       /\ ret.op = "get_root_categories" => result \in get_root_categories

\* The same of get_recent_content.
LastRecentRepeats ==
    ret.op = "get_recent_content" =>
        ret.value[1] \in get_recent_content(ret.args[1][1], ret.args[1][2])

====
